---- MODULE Spec2Model ----
(***************************************************************************)
(* Model of the Bonjour (macOS) backend of zeroconf-rs:                    *)
(*   src/zeroconf/src/macos/browser.rs   BonjourMdnsBrowser                *)
(*   src/zeroconf/src/macos/service.rs   BonjourMdnsService                *)
(*                                                                         *)
(* The program constructs one owner object (a browser or a publisher),     *)
(* configures it, and blocks in start(); from then on the backend's event  *)
(* loop invokes the extern "C" callbacks one at a time on that thread.     *)
(* Every callback invocation is one atomic action.  The backend is an      *)
(* external collaborator: which callback fires next, for which issued      *)
(* request, how often, and with which payload is nondeterministic.         *)
(*                                                                         *)
(* Option<T> is modelled as a set: None = {}, Some(x) = {x}.               *)
(* Result<T> is a record with field ok.                                    *)
(* Strings the code only copies are TLA+ strings; a domain, which the code *)
(* normalizes, is a sequence of labels whose trailing "." is explicit; a   *)
(* socket address is a sockaddr_in record and its text form is tagged.     *)
(***************************************************************************)
EXTENDS Integers, Sequences, FiniteSets, TLC

\* ------------------------------------------------------------------ bounds
\* number of browse events the backend reports to one browser
MaxChains == 2
\* number of results handed to the user's callback that the model records
MaxDeliveries == 2

\* ------------------------------------------------- inputs from the backend
\* The network the backend sees: the service instances it can report to a
\* browser, and what it answers when asked to resolve an instance or a host.
Instances ==
  {[name |-> "Printer", regtype |-> "_http._tcp", domain |-> <<"local", ".">>,
    interface_index |-> 4],
   [name |-> "Scanner", regtype |-> "_http._tcp", domain |-> <<"local">>,
    interface_index |-> 5]}
ResolveReply(name) ==
  IF name = "Printer" THEN [host_target |-> "printer.local.", port |-> 631]
                      ELSE [host_target |-> "scanner.local.", port |-> 8080]
AddressReply(hostname) ==
  IF hostname = "printer.local."
    THEN [sin_family |-> "AF_INET", sin_addr |-> <<192, 168, 1, 50>>]
    ELSE [sin_family |-> "AF_INET", sin_addr |-> <<10, 0, 0, 7>>]
\* DNSServiceErrorType values the backend reports: 0 is success
ErrorCodes == {0, 5}
UserData == {"u1", "u2"}

\* ------------------------------------------------------------- Option<T>
None == {}
Some(x) == {x}
is_none(o) == o = {}
is_some(o) == o # {}
\* Option::unwrap on a Some; the callers test is_some first (a None panics)
unwrap(o) == CHOOSE x \in o : TRUE

\* ------------------------------------------------------------- Result<T>
Ok(v) == [ok |-> TRUE, value |-> v]
\* an error built by format!(".. (code: {})", error).into(): the text names
\* the reporting function and embeds the code
Err(text, code) == [ok |-> FALSE, value |-> [message |-> text, code |-> code]]

\* ------------------------------------------------------------ conversions
\* compat::normalize_domain: strips the trailing "." of a domain
normalize_domain(d) ==
  IF Len(d) > 0 /\ d[Len(d)] = "." THEN SubSeq(d, 1, Len(d) - 1) ELSE d

\* cstr::copy_raw: an owned copy of the backend's C string
copy_raw(s) == s

\* get_ip: inet_ntoa of the sin_addr of the address read as a sockaddr_in
get_ip(address) == [dotted |-> address.sin_addr]

\* the address Box::into_raw returned for the one context the owner allocates
context_ptr == 1

\* AsRaw::as_raw(&mut self): the context's own address
as_raw(c) == context_ptr

\* ------------------------------------------------------ the browser context
\* struct BonjourBrowserContext after Box::default()
BonjourBrowserContext ==
  [service_discovered_callback |-> None,
   resolved_name |-> None,
   resolved_kind |-> None,
   resolved_domain |-> None,
   resolved_port |-> 0,
   user_context |-> None]

\* What one invocation of an extern "C" callback did: the context it leaves,
\* the Result its handler returned, the requests it issued to the backend, the results it handed to the user's
\* callback (in order), and whether it panicked (an unwrap of a None).
Outcome(c, result, issued, delivered, panicked) ==
  [ctx |-> c, result |-> result, issued |-> issued, delivered |-> delivered,
   panicked |-> panicked]

\* invoke_callback that hands the callback no user data
BrowserContext_invoke_callback_no_user(c, result) ==
  IF is_some(c.service_discovered_callback)
    THEN <<[result |-> result, user |-> None]>>
    ELSE <<>>

\* BonjourBrowserContext::invoke_callback(&self, result): the deliveries made
BrowserContext_invoke_callback(c, result) ==
  IF is_some(c.service_discovered_callback)
    THEN <<[result |-> result, user |-> c.user_context]>>
    ELSE <<>>

\* ManagedDNSServiceRef::resolve_service(params): the backend accepts the
\* request (status 0) or rejects it with a nonzero status
resolve_service(params, status) ==
  IF status = 0
    THEN [result |-> Ok("unit"), issued |-> {params}]
    ELSE [result |-> Err("resolve_service", status), issued |-> {}]

\* ManagedDNSServiceRef::get_address_info(params)
get_address_info(params, status) ==
  IF status = 0
    THEN [result |-> Ok("unit"), issued |-> {params}]
    ELSE [result |-> Err("get_address_info", status), issued |-> {}]

\* handle_browse whose error text embeds no code
handle_browse_no_code(c, error, name, regtype, domain, interface_index, status) ==
  IF error # 0
    THEN [ctx |-> c, result |-> Err("browse_callback", 0), issued |-> {}]
    ELSE LET c1 == [c EXCEPT !.resolved_name = Some(copy_raw(name)),
                             !.resolved_kind = Some(copy_raw(regtype)),
                             !.resolved_domain = Some(copy_raw(domain))]
             r == resolve_service([op |-> "resolve",
                                   flags |-> "kDNSServiceFlagsForceMulticast",
                                   interface_index |-> interface_index,
                                   name |-> name,
                                   regtype |-> regtype,
                                   domain |-> domain,
                                   context |-> as_raw(c)], status)
         IN [ctx |-> c1, result |-> r.result, issued |-> r.issued]

\* handle_browse that keeps the strings of a chain still in progress
handle_browse_keeps_first(c, error, name, regtype, domain, interface_index, status) ==
  IF error # 0
    THEN [ctx |-> c, result |-> Err("browse_callback", error), issued |-> {}]
    ELSE LET c1 == IF is_some(c.resolved_name) THEN c
                   ELSE [c EXCEPT !.resolved_name = Some(copy_raw(name)),
                                  !.resolved_kind = Some(copy_raw(regtype)),
                                  !.resolved_domain = Some(copy_raw(domain))]
             r == resolve_service([op |-> "resolve",
                                   flags |-> "kDNSServiceFlagsForceMulticast",
                                   interface_index |-> interface_index,
                                   name |-> name,
                                   regtype |-> regtype,
                                   domain |-> domain,
                                   context |-> as_raw(c)], status)
         IN [ctx |-> c1, result |-> r.result, issued |-> r.issued]

\* handle_browse that forgets the discovered strings when the watch reports
\* an error
handle_browse_clears_on_error(c, error, name, regtype, domain, interface_index, status) ==
  IF error # 0
    THEN [ctx |-> [c EXCEPT !.resolved_name = None, !.resolved_kind = None,
                            !.resolved_domain = None],
          result |-> Err("browse_callback", error), issued |-> {}]
    ELSE LET c1 == [c EXCEPT !.resolved_name = Some(copy_raw(name)),
                             !.resolved_kind = Some(copy_raw(regtype)),
                             !.resolved_domain = Some(copy_raw(domain))]
             r == resolve_service([op |-> "resolve",
                                   flags |-> "kDNSServiceFlagsForceMulticast",
                                   interface_index |-> interface_index,
                                   name |-> name,
                                   regtype |-> regtype,
                                   domain |-> domain,
                                   context |-> as_raw(c)], status)
         IN [ctx |-> c1, result |-> r.result, issued |-> r.issued]

\* handle_browse: [ctx, result, issued]
handle_browse(c, error, name, regtype, domain, interface_index, status) ==
  IF error # 0
    THEN [ctx |-> c, result |-> Err("browse_callback", error), issued |-> {}]
    ELSE LET c1 == [c EXCEPT !.resolved_name = Some(copy_raw(name)),
                             !.resolved_kind = Some(copy_raw(regtype)),
                             !.resolved_domain = Some(copy_raw(domain))]
             r == resolve_service([op |-> "resolve",
                                   flags |-> "kDNSServiceFlagsForceMulticast",
                                   interface_index |-> interface_index,
                                   name |-> name,
                                   regtype |-> regtype,
                                   domain |-> domain,
                                   context |-> as_raw(c)], status)
         IN [ctx |-> c1, result |-> r.result, issued |-> r.issued]

\* browse_callback that unwraps the handler's Result instead of delivering
\* its Err: the panic crosses the extern "C" boundary
browse_callback_unwrap(c, error, name, regtype, domain, interface_index, status) ==
  LET r == handle_browse(c, error, name, regtype, domain, interface_index, status)
  IN Outcome(r.ctx, r.result, r.issued, <<>>, ~r.result.ok)

\* extern "C" browse_callback
browse_callback(c, error, name, regtype, domain, interface_index, status) ==
  LET r == handle_browse(c, error, name, regtype, domain, interface_index, status)
  IN Outcome(r.ctx, r.result, r.issued,
             IF r.result.ok THEN <<>> ELSE BrowserContext_invoke_callback(r.ctx, r.result),
             FALSE)

\* handle_resolve that forgets to store the reported port
handle_resolve_no_port(c, error, port, interface_index, host_target, status) ==
  IF error # 0
    THEN [ctx |-> c, result |-> Err("resolve_callback", error), issued |-> {}]
    ELSE LET r == get_address_info([op |-> "get_address_info",
                                    flags |-> "kDNSServiceFlagsForceMulticast",
                                    protocol |-> 0,
                                    interface_index |-> interface_index,
                                    hostname |-> host_target,
                                    context |-> as_raw(c)], status)
         IN [ctx |-> c, result |-> r.result, issued |-> r.issued]

\* handle_resolve that does not look at the error code
handle_resolve_ignores_error(c, error, port, interface_index, host_target, status) ==
  LET c1 == [c EXCEPT !.resolved_port = port]
      r == get_address_info([op |-> "get_address_info",
                             flags |-> "kDNSServiceFlagsForceMulticast",
                             protocol |-> 0,
                             interface_index |-> interface_index,
                             hostname |-> host_target,
                             context |-> as_raw(c)], status)
  IN [ctx |-> c1, result |-> r.result, issued |-> r.issued]

\* handle_resolve that stores the port after the address lookup was issued,
\* so not at all when the request is rejected
handle_resolve_stores_late(c, error, port, interface_index, host_target, status) ==
  IF error # 0
    THEN [ctx |-> c, result |-> Err("resolve_callback", error), issued |-> {}]
    ELSE LET r == get_address_info([op |-> "get_address_info",
                                    flags |-> "kDNSServiceFlagsForceMulticast",
                                    protocol |-> 0,
                                    interface_index |-> interface_index,
                                    hostname |-> host_target,
                                    context |-> as_raw(c)], status)
         IN [ctx |-> IF r.result.ok THEN [c EXCEPT !.resolved_port = port] ELSE c,
             result |-> r.result, issued |-> r.issued]

\* handle_resolve: [ctx, result, issued]
handle_resolve(c, error, port, interface_index, host_target, status) ==
  IF error # 0
    THEN [ctx |-> c, result |-> Err("resolve_callback", error), issued |-> {}]
    ELSE LET c1 == [c EXCEPT !.resolved_port = port]
             r == get_address_info([op |-> "get_address_info",
                                    flags |-> "kDNSServiceFlagsForceMulticast",
                                    protocol |-> 0,
                                    interface_index |-> interface_index,
                                    hostname |-> host_target,
                                    context |-> as_raw(c)], status)
         IN [ctx |-> c1, result |-> r.result, issued |-> r.issued]

\* resolve_callback that hands the handler's Result to the user's callback
\* whether it is an Err or not
resolve_callback_delivers_always(c, error, port, interface_index, host_target, status) ==
  LET r == handle_resolve(c, error, port, interface_index, host_target, status)
  IN Outcome(r.ctx, r.result, r.issued,
             BrowserContext_invoke_callback(r.ctx, r.result), FALSE)

\* extern "C" resolve_callback
resolve_callback(c, error, port, interface_index, host_target, status) ==
  LET r == handle_resolve(c, error, port, interface_index, host_target, status)
  IN Outcome(r.ctx, r.result, r.issued,
             IF r.result.ok THEN <<>> ELSE BrowserContext_invoke_callback(r.ctx, r.result),
             FALSE)

\* handle_get_address_info that clones the three strings instead of taking them
handle_get_address_info_no_take(c, error, address, hostname) ==
  IF is_none(c.resolved_name)
    THEN [ctx |-> c, result |-> Ok("unit"), delivered |-> <<>>, panicked |-> FALSE]
  ELSE IF error # 0
    THEN [ctx |-> c, result |-> Err("get_address_info_callback", error),
          delivered |-> <<>>, panicked |-> FALSE]
  ELSE [ctx |-> c, result |-> Ok("unit"),
        delivered |-> BrowserContext_invoke_callback(c,
          Ok([name |-> unwrap(c.resolved_name),
              kind |-> unwrap(c.resolved_kind),
              domain |-> normalize_domain(unwrap(c.resolved_domain)),
              host_name |-> copy_raw(hostname),
              address |-> get_ip(address),
              port |-> c.resolved_port])),
        panicked |-> FALSE]

\* handle_get_address_info that returns before taking the strings when no
\* callback is registered
handle_get_address_info_needs_callback(c, error, address, hostname) ==
  IF is_none(c.resolved_name) \/ is_none(c.service_discovered_callback)
    THEN [ctx |-> c, result |-> Ok("unit"), delivered |-> <<>>, panicked |-> FALSE]
  ELSE IF error # 0
    THEN [ctx |-> c, result |-> Err("get_address_info_callback", error),
          delivered |-> <<>>, panicked |-> FALSE]
  ELSE [ctx |-> [c EXCEPT !.resolved_domain = None, !.resolved_name = None,
                          !.resolved_kind = None],
        result |-> Ok("unit"),
        delivered |-> BrowserContext_invoke_callback(c,
          Ok([name |-> unwrap(c.resolved_name),
              kind |-> unwrap(c.resolved_kind),
              domain |-> normalize_domain(unwrap(c.resolved_domain)),
              host_name |-> copy_raw(hostname),
              address |-> get_ip(address),
              port |-> c.resolved_port])),
        panicked |-> FALSE]

\* handle_get_address_info without the resolved_name.is_none() guard
handle_get_address_info_no_guard(c, error, address, hostname) ==
  IF error # 0
    THEN [ctx |-> c, result |-> Err("get_address_info_callback", error),
          delivered |-> <<>>, panicked |-> FALSE]
  ELSE IF is_none(c.resolved_domain)
    THEN [ctx |-> c, result |-> Ok("unit"), delivered |-> <<>>, panicked |-> TRUE]
  ELSE [ctx |-> [c EXCEPT !.resolved_domain = None, !.resolved_name = None,
                          !.resolved_kind = None],
        result |-> Ok("unit"),
        delivered |-> BrowserContext_invoke_callback(c,
          Ok([name |-> unwrap(c.resolved_name),
              kind |-> unwrap(c.resolved_kind),
              domain |-> normalize_domain(unwrap(c.resolved_domain)),
              host_name |-> copy_raw(hostname),
              address |-> get_ip(address),
              port |-> c.resolved_port])),
        panicked |-> FALSE]

\* handle_get_address_info that moves out the name and clones the type and
\* the domain
handle_get_address_info_takes_name_only(c, error, address, hostname) ==
  IF is_none(c.resolved_name)
    THEN [ctx |-> c, result |-> Ok("unit"), delivered |-> <<>>, panicked |-> FALSE]
  ELSE IF error # 0
    THEN [ctx |-> c, result |-> Err("get_address_info_callback", error),
          delivered |-> <<>>, panicked |-> FALSE]
  ELSE [ctx |-> [c EXCEPT !.resolved_name = None], result |-> Ok("unit"),
        delivered |-> BrowserContext_invoke_callback(c,
          Ok([name |-> unwrap(c.resolved_name),
              kind |-> unwrap(c.resolved_kind),
              domain |-> normalize_domain(unwrap(c.resolved_domain)),
              host_name |-> copy_raw(hostname),
              address |-> get_ip(address),
              port |-> c.resolved_port])),
        panicked |-> FALSE]

\* handle_get_address_info: [ctx, result, delivered, panicked]
handle_get_address_info(c, error, address, hostname) ==
  IF is_none(c.resolved_name)
    THEN [ctx |-> c, result |-> Ok("unit"), delivered |-> <<>>, panicked |-> FALSE]
  ELSE IF error # 0
    THEN [ctx |-> c, result |-> Err("get_address_info_callback", error),
          delivered |-> <<>>, panicked |-> FALSE]
  ELSE IF is_none(c.resolved_domain)
    \* ctx.resolved_domain.take().unwrap() on a None
    THEN [ctx |-> c, result |-> Ok("unit"), delivered |-> <<>>, panicked |-> TRUE]
  ELSE IF is_none(c.resolved_kind)
    \* ctx.resolved_kind.take().unwrap() on a None, after the two take()s
    THEN [ctx |-> [c EXCEPT !.resolved_domain = None, !.resolved_name = None],
          result |-> Ok("unit"), delivered |-> <<>>, panicked |-> TRUE]
  ELSE LET ip == get_ip(address)
           host == copy_raw(hostname)
           domain == normalize_domain(unwrap(c.resolved_domain))
           c1 == [c EXCEPT !.resolved_domain = None,
                           !.resolved_name = None,
                           !.resolved_kind = None]
           result == [name |-> unwrap(c.resolved_name),
                      kind |-> unwrap(c.resolved_kind),
                      domain |-> domain,
                      host_name |-> host,
                      address |-> ip,
                      port |-> c.resolved_port]
       IN [ctx |-> c1, result |-> Ok("unit"),
           delivered |-> BrowserContext_invoke_callback(c1, Ok(result)), panicked |-> FALSE]

\* extern "C" get_address_info_callback
get_address_info_callback(c, error, address, hostname) ==
  LET r == handle_get_address_info(c, error, address, hostname)
  IN Outcome(r.ctx, r.result, {},
             r.delivered \o (IF r.result.ok THEN <<>> ELSE BrowserContext_invoke_callback(r.ctx, r.result)),
             r.panicked)

\* ------------------------------------------------------------ the browser
VARIABLES
  owner,        \* which object the program constructed: "browser" or "service"
  this,         \* the fields of that BonjourMdnsBrowser / BonjourMdnsService
  phase,        \* "constructed", "started" (blocked in start()), "dropped"
  start_result, \* Option<Result<()>>: what start() returned, if it returned
  box,          \* the Box behind the owner's raw context pointer
  ctx,          \* the context behind the owner's raw pointer `context`
  requests,     \* the requests the backend has accepted and reports on
  deliveries,   \* the calls of the user's result callback, in order
  aborted,      \* a panic reached an extern "C" boundary
  chains,       \* history: per browse event (chain), the instance reported
                \*   (found), whether its resolve callback reported success
                \*   (resolved), the number of browse events handled when its
                \*   address callback last found the name present and returned
                \*   Ok (done, 0 if never), and whether the handler of one of
                \*   its callbacks returned an Err (failed)
  slot,         \* history: the chain whose browse event last filled the context
  serial        \* history: the events so far came one chain at a time, error free

vars == <<owner, this, phase, start_result, box, ctx, requests, deliveries, aborted,
          chains, slot, serial>>

\* the values a callback gets on an error report: the code reads none of them
NullName == ""
NullDomain == <<>>
NullAddress == [sin_family |-> "AF_UNSPEC", sin_addr |-> <<0, 0, 0, 0>>]
NullInstance ==
  [name |-> NullName, regtype |-> NullName, domain |-> NullDomain,
   interface_index |-> 0]

\* struct BonjourServiceContext after Box::default()
BonjourServiceContext == [registered_callback |-> None, user_context |-> None]

BONJOUR_IF_UNSPEC == 0
BONJOUR_RENAME_FLAGS == 0

\* BonjourMdnsBrowser::new(kind): the struct's fields
BonjourMdnsBrowser(kind) == [kind |-> kind, context |-> context_ptr]

\* BonjourMdnsService::new(kind, port): the struct's fields
BonjourMdnsService(kind, port) ==
  [kind |-> kind, port |-> port, name |-> None,
   interface_index |-> BONJOUR_IF_UNSPEC, context |-> context_ptr]

\* the state after BonjourMdnsBrowser::new or BonjourMdnsService::new
Init ==
  /\ owner \in {"browser", "service"}
  /\ this = IF owner = "browser" THEN BonjourMdnsBrowser("_http._tcp")
                                 ELSE BonjourMdnsService("_http._tcp", 8080)
  /\ phase = "constructed"
  /\ start_result = None
  /\ box = [allocated |-> TRUE, allocs |-> 1, frees |-> 0]
  /\ ctx = IF owner = "browser" THEN BonjourBrowserContext ELSE BonjourServiceContext
  /\ requests = {}
  /\ deliveries = <<>>
  /\ aborted = FALSE
  /\ chains = <<>>
  /\ slot = 0
  /\ serial = TRUE

\* BonjourMdnsBrowser::set_service_discovered_callback
set_service_discovered_callback ==
  /\ owner = "browser" /\ phase = "constructed"
  /\ ctx' = [ctx EXCEPT !.service_discovered_callback = Some("f")]
  /\ UNCHANGED <<owner, this, phase, start_result, box, requests, deliveries, aborted,
                 chains, slot, serial>>

\* BonjourMdnsBrowser::set_context
Browser_set_context ==
  /\ owner = "browser" /\ phase = "constructed"
  /\ \E u \in UserData : ctx' = [ctx EXCEPT !.user_context = Some(u)]
  /\ UNCHANGED <<owner, this, phase, start_result, box, requests, deliveries, aborted,
                 chains, slot, serial>>

\* requests as the backend holds them: with the chain they were issued for
Tagged(issued, chain) == {[params |-> p, chain |-> chain] : p \in issued}

\* ManagedDNSServiceRef::browse_services(params): the backend rejects the
\* request (start() returns the error) or accepts it and start() blocks in
\* the event loop
browse_services(params, status) ==
  IF status = 0
    THEN [returned |-> None, issued |-> {params}]
    ELSE [returned |-> Some(Err("browse_services", status)), issued |-> {}]

\* BonjourMdnsBrowser::start
Browser_start ==
  /\ owner = "browser" /\ phase = "constructed"
  /\ \E status \in ErrorCodes :
       LET r == browse_services([op |-> "browse", flags |-> 0, interface_index |-> 0,
                                 regtype |-> this.kind, domain |-> None,
                                 context |-> this.context], status)
       IN /\ start_result' = r.returned
          /\ requests' = requests \cup Tagged(r.issued, 0)
          /\ phase' = IF status = 0 THEN "started" ELSE "constructed"
  /\ UNCHANGED <<owner, this, box, ctx, deliveries, aborted, chains, slot, serial>>

\* browse_callback runs with the given error code for the given instance;
\* status is the backend's answer to the resolve request it tries to issue
BrowseCall(error, found, status) ==
  LET o == browse_callback(ctx, error, found.name, found.regtype,
                           found.domain, found.interface_index, status)
      k == Len(chains) + 1
  IN /\ ctx' = o.ctx
     /\ requests' = requests \cup Tagged(o.issued, k)
     /\ deliveries' = deliveries \o o.delivered
     /\ aborted' = o.panicked
     /\ chains' = Append(chains, [found |-> found, resolved |-> FALSE, done |-> 0,
                               failed |-> ~o.result.ok])
     /\ slot' = IF error = 0 THEN k ELSE slot
     /\ serial' = (serial /\ error = 0 /\ status = 0
                     /\ (chains = <<>> \/ chains[Len(chains)].done > 0))
     /\ UNCHANGED <<owner, this, phase, start_result, box>>

\* the backend invokes browse_callback
BrowseEvent ==
  /\ owner = "browser" /\ phase = "started" /\ ~aborted
  /\ \E q \in requests : q.params.op = "browse"
  /\ Len(chains) < MaxChains
  /\ \E error \in ErrorCodes :
     \E found \in IF error = 0 THEN Instances ELSE {NullInstance},
        status \in IF error = 0 THEN ErrorCodes ELSE {0} :
       /\ BrowseCall(error, found, status)
       /\ Len(deliveries') <= MaxDeliveries

\* resolve_callback runs for the resolve request r with the given error code;
\* on success the backend reports the host target and port of r's instance
ResolveCall(r, error, status) ==
  LET reply == IF error = 0 THEN ResolveReply(r.params.name)
                            ELSE [host_target |-> NullName, port |-> 0]
      o == resolve_callback(ctx, error, reply.port, r.params.interface_index,
                            reply.host_target, status)
      k == r.chain
  IN /\ ctx' = o.ctx
     /\ requests' = requests \cup Tagged(o.issued, k)
     /\ deliveries' = deliveries \o o.delivered
     /\ aborted' = o.panicked
     /\ chains' = [chains EXCEPT ![k].resolved = @ \/ error = 0,
                                  ![k].failed = @ \/ ~o.result.ok]
     /\ serial' = (serial /\ error = 0 /\ status = 0 /\ k = Len(chains)
                     /\ ~chains[k].resolved)
     /\ UNCHANGED <<owner, this, phase, start_result, box, slot>>

\* the backend invokes resolve_callback for a resolve request it holds
ResolveEvent ==
  /\ owner = "browser" /\ phase = "started" /\ ~aborted
  /\ \E r \in {q \in requests : q.params.op = "resolve"} :
     \E error \in ErrorCodes :
     \E status \in IF error = 0 THEN ErrorCodes ELSE {0} :
       /\ ResolveCall(r, error, status)
       /\ Len(deliveries') <= MaxDeliveries

\* get_address_info_callback runs for the address request r with the given
\* error code; the hostname it is passed is the one r asked about, and on
\* success the address is that host's
AddressCall(r, error) ==
  LET address == IF error = 0 THEN AddressReply(r.params.hostname) ELSE NullAddress
      o == get_address_info_callback(ctx, error, address, r.params.hostname)
      k == r.chain
      completed == is_some(ctx.resolved_name) /\ o.result.ok /\ ~o.panicked
  IN /\ ctx' = o.ctx
     /\ deliveries' = deliveries \o o.delivered
     /\ aborted' = o.panicked
     /\ chains' = [chains EXCEPT ![k].done = IF completed THEN Len(chains) ELSE @,
                                  ![k].failed = @ \/ ~o.result.ok]
     /\ serial' = (serial /\ error = 0 /\ k = Len(chains))
     /\ UNCHANGED <<owner, this, phase, start_result, box, requests, slot>>

\* the backend invokes get_address_info_callback for an address request it holds
AddressEvent ==
  /\ owner = "browser" /\ phase = "started" /\ ~aborted
  /\ \E r \in {q \in requests : q.params.op = "get_address_info"} :
     \E error \in ErrorCodes :
       /\ AddressCall(r, error)
       /\ Len(deliveries') <= MaxDeliveries

\* a Drop that forgets the context: no Box::from_raw
Browser_drop_leak ==
  /\ owner = "browser" /\ phase \in {"constructed", "started"}
  /\ phase' = "dropped"
  /\ UNCHANGED <<owner, this, start_result, box, ctx, requests, deliveries, aborted,
                 chains, slot, serial>>

\* impl Drop for BonjourMdnsBrowser: the owner is torn down; the thread that
\* pumped the event loop is gone, so no callback runs afterwards
Browser_drop ==
  /\ owner = "browser" /\ phase \in {"constructed", "started"}
  /\ phase' = "dropped"
  /\ box' = [box EXCEPT !.allocated = FALSE, !.frees = @ + 1]
  /\ UNCHANGED <<owner, this, start_result, ctx, requests, deliveries, aborted,
                 chains, slot, serial>>

\* ----------------------------------------------------------- the publisher
\* BonjourServiceContext::invoke_callback(&self, result): the deliveries made
ServiceContext_invoke_callback(c, result) ==
  IF is_some(c.registered_callback)
    THEN <<[result |-> result, user |-> c.user_context]>>
    ELSE <<>>

\* cstr::raw_to_str: the backend's C string read as a &str
raw_to_str(s) == s

\* handle_register that builds the registration from the raw domain
handle_register_raw_domain(context, error, domain, name, regtype) ==
  IF error # 0
    THEN [result |-> Err("register_callback", error), delivered |-> <<>>]
    ELSE [result |-> Ok("unit"),
          delivered |-> ServiceContext_invoke_callback(context,
            Ok([name |-> copy_raw(name), kind |-> copy_raw(regtype),
                domain |-> raw_to_str(domain)]))]

\* handle_register(context, error, domain, name, regtype): [result, delivered]
handle_register(context, error, domain, name, regtype) ==
  IF error # 0
    THEN [result |-> Err("register_callback", error), delivered |-> <<>>]
    ELSE LET d == normalize_domain(raw_to_str(domain))
             result == [name |-> copy_raw(name),
                        kind |-> copy_raw(regtype),
                        domain |-> d]
         IN [result |-> Ok("unit"),
             delivered |-> ServiceContext_invoke_callback(context, Ok(result))]

\* extern "C" register_callback
register_callback(context, error, name, regtype, domain) ==
  LET r == handle_register(context, error, domain, name, regtype)
  IN Outcome(context, r.result, {},
             r.delivered \o (IF r.result.ok THEN <<>>
                             ELSE ServiceContext_invoke_callback(context, r.result)),
             FALSE)

\* BonjourMdnsService::set_name
set_name ==
  /\ owner = "service" /\ phase = "constructed"
  /\ this' = [this EXCEPT !.name = Some("MyDevice")]
  /\ UNCHANGED <<owner, phase, start_result, box, ctx, requests, deliveries,
                 aborted, chains, slot, serial>>

\* NetworkInterface values and the index set_network_interface stores for them
NetworkInterfaces == {[tag |-> "Unspec", index |-> 0], [tag |-> "AtIndex", index |-> 4]}
interface_index_of(interface) ==
  IF interface.tag = "Unspec" THEN BONJOUR_IF_UNSPEC ELSE interface.index

\* BonjourMdnsService::set_network_interface
set_network_interface ==
  /\ owner = "service" /\ phase = "constructed"
  /\ \E interface \in NetworkInterfaces :
       this' = [this EXCEPT !.interface_index = interface_index_of(interface)]
  /\ UNCHANGED <<owner, phase, start_result, box, ctx, requests, deliveries,
                 aborted, chains, slot, serial>>

\* BonjourMdnsService::set_registered_callback
set_registered_callback ==
  /\ owner = "service" /\ phase = "constructed"
  /\ ctx' = [ctx EXCEPT !.registered_callback = Some("f")]
  /\ UNCHANGED <<owner, this, phase, start_result, box, requests, deliveries,
                 aborted, chains, slot, serial>>

\* BonjourMdnsService::set_context
Service_set_context ==
  /\ owner = "service" /\ phase = "constructed"
  /\ \E u \in UserData : ctx' = [ctx EXCEPT !.user_context = Some(u)]
  /\ UNCHANGED <<owner, this, phase, start_result, box, requests, deliveries,
                 aborted, chains, slot, serial>>

\* ManagedDNSServiceRef::register_service(params): rejected, or accepted and
\* start() blocks in the event loop
register_service(params, status) ==
  IF status = 0
    THEN [returned |-> None, issued |-> {params}]
    ELSE [returned |-> Some(Err("register_service", status)), issued |-> {}]

\* BonjourMdnsService::start
Service_start ==
  /\ owner = "service" /\ phase = "constructed"
  /\ \E status \in ErrorCodes :
       LET r == register_service([op |-> "register", flags |-> BONJOUR_RENAME_FLAGS,
                                  interface_index |-> this.interface_index,
                                  name |-> this.name, regtype |-> this.kind,
                                  domain |-> None, host |-> None,
                                  port |-> this.port, txt_len |-> 0,
                                  context |-> this.context], status)
       IN /\ start_result' = r.returned
          /\ requests' = requests \cup Tagged(r.issued, 0)
          /\ phase' = IF status = 0 THEN "started" ELSE "constructed"
  /\ UNCHANGED <<owner, this, box, ctx, deliveries, aborted, chains, slot, serial>>

\* the names the backend may report for a registration: the requested one,
\* the requested one renamed after a conflict, or the machine's when none
\* was requested
EchoNames(params) ==
  IF is_none(params.name) THEN {"MyMac"}
                          ELSE {unwrap(params.name), "MyDevice (2)"}

\* the registration type and domain the backend reports back: fully qualified
EchoRegtype(params) == IF params.regtype = "_http._tcp" THEN "_http._tcp." ELSE params.regtype
EchoDomain == <<"local", ".">>

\* register_callback runs for the register request r, the backend reporting
\* the given error code and, on success, the given name
RegisterCall(r, error, name) ==
  LET o == register_callback(ctx, error, name,
                             IF error = 0 THEN EchoRegtype(r.params) ELSE NullName,
                             IF error = 0 THEN EchoDomain ELSE NullDomain)
  IN /\ ctx' = o.ctx
     /\ deliveries' = deliveries \o o.delivered
     /\ aborted' = o.panicked
     /\ UNCHANGED <<owner, this, phase, start_result, box, requests,
                    chains, slot, serial>>

\* the backend invokes register_callback for the register request it holds
RegisterEvent ==
  /\ owner = "service" /\ phase = "started" /\ ~aborted
  /\ \E r \in {q \in requests : q.params.op = "register"} :
     \E error \in ErrorCodes :
     \E name \in IF error = 0 THEN EchoNames(r.params) ELSE {NullName} :
       /\ RegisterCall(r, error, name)
       /\ Len(deliveries') <= MaxDeliveries

\* impl Drop for BonjourMdnsService
Service_drop ==
  /\ owner = "service" /\ phase \in {"constructed", "started"}
  /\ phase' = "dropped"
  /\ box' = [box EXCEPT !.allocated = FALSE, !.frees = @ + 1]
  /\ UNCHANGED <<owner, this, start_result, ctx, requests, deliveries, aborted,
                 chains, slot, serial>>

Next ==
  \/ set_service_discovered_callback
  \/ Browser_set_context
  \/ Browser_start
  \/ BrowseEvent
  \/ ResolveEvent
  \/ AddressEvent
  \/ Browser_drop
  \/ set_name
  \/ set_network_interface
  \/ set_registered_callback
  \/ Service_set_context
  \/ Service_start
  \/ RegisterEvent
  \/ Service_drop

Spec == Init /\ [][Next]_vars

\* ------------------------------------------- construction from any &str
\* The kind argument of new: a &str, its text and the position of an interior
\* NUL byte if it has one
WellFormedKind == [text |-> "_http._tcp", nul_at |-> None]
MalformedKind == [text |-> "_http._tcp", nul_at |-> Some(6)]
Kinds == {WellFormedKind, MalformedKind}

\* CString::new(kind): Err(NulError) on an interior NUL byte
CString_new(kind) ==
  IF is_some(kind.nul_at) THEN Err("NulError", unwrap(kind.nul_at))
                          ELSE Ok(kind.text)

\* BonjourMdnsBrowser::new panicked in CString::new(kind).unwrap(): the
\* kind field is evaluated before the context is allocated, no browser exists
PanickedNew ==
  /\ owner = "browser"
  /\ this = [kind |-> None, context |-> 0]
  /\ phase = "panicked"
  /\ start_result = None
  /\ box = [allocated |-> FALSE, allocs |-> 0, frees |-> 0]
  /\ ctx = BonjourBrowserContext
  /\ requests = {}
  /\ deliveries = <<>>
  /\ aborted = FALSE
  /\ chains = <<>>
  /\ slot = 0
  /\ serial = TRUE

\* the state after new(kind) for any kind the caller may pass
InitAnyKind ==
  \E kind \in Kinds :
    LET c == CString_new(kind)
    IN IF c.ok THEN Init /\ this.kind = c.value ELSE PanickedNew

SpecAnyKind == InitAnyKind /\ [][Next]_vars

\* ------------------------------------------------------------------ claims
IsBrowser == owner = "browser"
IsService == owner = "service"
HasCallback == is_some(ctx.service_discovered_callback)
Found(k) == chains[k].found
Completed == {k \in 1..Len(chains) : chains[k].done > 0}
AddressRequests == {q \in requests : q.params.op = "get_address_info"}
ResolveRequests == {q \in requests : q.params.op = "resolve"}

\* the ServiceDiscovery a chain is to deliver: name, kind and domain from its
\* browse event (the domain normalized), host target and port from its
\* resolve callback, the address from its address callback
ExpectedDiscovery(k) ==
  LET f == Found(k)
      reply == ResolveReply(f.name)
  IN [name |-> f.name, kind |-> f.regtype, domain |-> normalize_domain(f.domain),
      host_name |-> reply.host_target,
      address |-> [dotted |-> AddressReply(reply.host_target).sin_addr],
      port |-> reply.port]

\* C1: when the browse events are handled one at a time (each chain's resolve
\* and address callbacks fire before the next browse event, all with error
\* code 0), every chain whose address callback has run has delivered exactly
\* one Ok(ServiceDiscovery), in order, carrying its own browse event's name,
\* kind and normalized domain, its resolve callback's host target and port and
\* its address callback's IP; chains not yet completed have delivered nothing.
C1_SerialChainsDeliverOwnData ==
  (IsBrowser /\ serial /\ HasCallback) =>
     /\ Completed \in {1..Len(chains), 1..(Len(chains) - 1)}
     /\ Len(deliveries) = Cardinality(Completed)
     /\ \A k \in Completed : deliveries[k].result = Ok(ExpectedDiscovery(k))

\* two different instances were discovered and delivered one after the other
C1_Witness ==
  /\ IsBrowser /\ serial /\ HasCallback
  /\ Len(chains) = 2 /\ Completed = {1, 2}
  /\ Found(1).name # Found(2).name
  /\ Len(deliveries) = 2
  /\ deliveries[2].result.value.domain = <<"local">>

\* C2: once a chain's address callback has completed successfully and no
\* browse event has been handled since, a further firing of the address
\* callback for that chain, with error code 0 or nonzero, delivers nothing to
\* the user callback and leaves the context unchanged.
C2_RefireAfterCompletionIsSilent ==
  [][\A r \in AddressRequests : \A error \in ErrorCodes :
       (IsBrowser /\ chains[r.chain].done = Len(chains) /\ AddressCall(r, error))
         => (deliveries' = deliveries /\ ctx' = ctx)]_vars

\* a chain has completed and delivered, no browse event has been handled
\* since, and the backend still holds the chain's address request, so that
\* the callback fires again (the firing leaves this very state)
C2_Witness ==
  /\ IsBrowser /\ phase = "started" /\ HasCallback
  /\ \E r \in AddressRequests :
       /\ chains[r.chain].done = Len(chains)
       /\ is_none(ctx.resolved_name)
       /\ \A error \in ErrorCodes :
            get_address_info_callback(ctx, error, NullAddress, r.params.hostname).delivered = <<>>
  /\ Len(deliveries) = 1 /\ deliveries[1].result.ok

\* an invocation added exactly one delivery, an Err, and did nothing else
OneErrOnly ==
  /\ Len(deliveries') = Len(deliveries) + 1
  /\ SubSeq(deliveries', 1, Len(deliveries)) = deliveries
  /\ ~deliveries'[Len(deliveries')].result.ok
  /\ requests' = requests
  /\ ctx' = ctx
\* an invocation delivered nothing and did nothing else
Silent == deliveries' = deliveries /\ requests' = requests /\ ctx' = ctx

\* every Err delivered so far reports the error code of a stage callback:
\* no request was rejected by the backend
OnlyStageErrors ==
  \A i \in 1..Len(deliveries) :
     deliveries[i].result.ok
       \/ deliveries[i].result.value.message \in
            {"browse_callback", "resolve_callback", "get_address_info_callback"}

\* C3 as stated: a stage callback reporting a nonzero error code delivers one
\* Err and issues no request, and from then on the chain gets no further
\* delivery (no second Err on a repeated firing, no Ok) and no further request.
C3_OneErrPerChain ==
  [][(IsBrowser /\ HasCallback /\ OnlyStageErrors) =>
       /\ \A error \in ErrorCodes \ {0} :
            BrowseCall(error, NullInstance, 0) => OneErrOnly
       /\ \A r \in ResolveRequests : \A error \in ErrorCodes :
            ResolveCall(r, error, 0) =>
              IF chains[r.chain].failed
                THEN deliveries' = deliveries /\ requests' = requests
                ELSE error # 0 => OneErrOnly
       /\ \A r \in AddressRequests : \A error \in ErrorCodes :
            AddressCall(r, error) =>
              IF chains[r.chain].failed
                THEN deliveries' = deliveries /\ requests' = requests
                ELSE error # 0 => OneErrOnly]_vars

\* C3 (amended): every invocation of the browse or resolve callback that
\* reports a nonzero error code, and every invocation of the address callback
\* that reports one while the discovered name is present, delivers exactly one
\* Err to the registered user callback, delivers no Ok, issues no request and
\* leaves the context unchanged; an address callback that reports one while
\* the name is absent delivers nothing.  This holds per invocation: a later
\* firing for the same chain is handled afresh.
C3_OneErrPerErrorReport ==
  [][(IsBrowser /\ HasCallback) =>
       /\ \A error \in ErrorCodes \ {0} :
            BrowseCall(error, NullInstance, 0) => OneErrOnly
       /\ \A r \in ResolveRequests : \A error \in ErrorCodes \ {0} :
            ResolveCall(r, error, 0) => OneErrOnly
       /\ \A r \in AddressRequests : \A error \in ErrorCodes \ {0} :
            AddressCall(r, error) =>
              IF is_some(ctx.resolved_name) THEN OneErrOnly ELSE Silent]_vars

\* one chain whose address callback reported an error twice: two Err
\* deliveries, the name still in the context
C3_Witness ==
  /\ IsBrowser /\ HasCallback /\ Len(chains) = 1
  /\ chains[1].failed /\ chains[1].done = 0
  /\ Len(deliveries) = 2
  /\ \A i \in 1..2 : /\ ~deliveries[i].result.ok
                     /\ deliveries[i].result.value.message = "get_address_info_callback"
  /\ is_some(ctx.resolved_name)

RegisterRequests == {q \in requests : q.params.op = "register"}
HasRegisteredCallback == is_some(ctx.registered_callback)
\* an invocation added exactly one delivery
OneDelivery ==
  /\ Len(deliveries') = Len(deliveries) + 1
  /\ SubSeq(deliveries', 1, Len(deliveries)) = deliveries
Delivered == deliveries'[Len(deliveries')]

\* C4: every invocation of register_callback makes exactly one delivery to the
\* registered callback: an Err when the reported error code is nonzero,
\* otherwise an Ok(ServiceRegistration) with the name and kind the backend
\* reported in that callback (whatever name was requested, and when none was)
\* and the reported domain normalized.
C4_RegisterDeliversEcho ==
  [][(IsService /\ HasRegisteredCallback) =>
       \A r \in RegisterRequests : \A error \in ErrorCodes :
       \A name \in EchoNames(r.params) \cup {NullName} :
         RegisterCall(r, error, name) =>
           /\ OneDelivery
           /\ IF error # 0
                THEN ~Delivered.result.ok
                ELSE Delivered.result =
                       Ok([name |-> name, kind |-> "_http._tcp.", domain |-> <<"local">>])]_vars

\* the backend renamed the requested name: the registration delivered carries
\* the backend's name; a later report with an error code delivered an Err
C4_Witness ==
  /\ IsService /\ HasRegisteredCallback
  /\ this.name = Some("MyDevice")
  /\ Len(deliveries) = 2
  /\ deliveries[1].result = Ok([name |-> "MyDevice (2)", kind |-> "_http._tcp.",
                                domain |-> <<"local">>])
  /\ ~deliveries[2].result.ok

\* the invocation handed one Err to the user's callback and returned to the
\* event loop: start() has not returned, nothing panicked
ErrToCallback ==
  /\ OneDelivery /\ ~Delivered.result.ok
  /\ start_result' = start_result /\ phase' = phase /\ ~aborted'
\* the invocation returned to the event loop without a delivery
NothingToCallback ==
  /\ deliveries' = deliveries
  /\ start_result' = start_result /\ phase' = phase /\ ~aborted'

\* C5 as stated: every error code reported by the browse, resolve or address
\* callback, and every rejected resolve or address-lookup request, results in
\* an Err passed to the user's result callback, never in a return of start(),
\* and the callback returns normally.
C5_ErrorsGoToCallback ==
  [][(IsBrowser /\ HasCallback) =>
       /\ \A error \in ErrorCodes, found \in Instances \cup {NullInstance},
             status \in ErrorCodes :
            (BrowseCall(error, found, status) /\ (error # 0 \/ status # 0))
              => ErrToCallback
       /\ \A r \in ResolveRequests : \A error \in ErrorCodes, status \in ErrorCodes :
            (ResolveCall(r, error, status) /\ (error # 0 \/ status # 0))
              => ErrToCallback
       /\ \A r \in AddressRequests : \A error \in ErrorCodes \ {0} :
            AddressCall(r, error) => ErrToCallback]_vars

\* C5 (amended): the same, except that an error code reported by the address
\* callback while the discovered name is absent is dropped: that invocation
\* delivers nothing (and still returns normally, start() unaffected).
C5_ErrorsGoToCallbackUnlessGuarded ==
  [][(IsBrowser /\ HasCallback) =>
       /\ \A error \in ErrorCodes, found \in Instances \cup {NullInstance},
             status \in ErrorCodes :
            (BrowseCall(error, found, status) /\ (error # 0 \/ status # 0))
              => ErrToCallback
       /\ \A r \in ResolveRequests : \A error \in ErrorCodes, status \in ErrorCodes :
            (ResolveCall(r, error, status) /\ (error # 0 \/ status # 0))
              => ErrToCallback
       /\ \A r \in AddressRequests : \A error \in ErrorCodes \ {0} :
            AddressCall(r, error) =>
              IF is_some(ctx.resolved_name) THEN ErrToCallback
                                            ELSE NothingToCallback]_vars

\* the resolve stage succeeded, the address-lookup request was rejected, and
\* the rejection reached the user's callback while start() is still blocked
C5_Witness ==
  /\ IsBrowser /\ HasCallback /\ phase = "started" /\ start_result = None
  /\ ~aborted
  /\ Len(chains) = 1 /\ chains[1].resolved /\ chains[1].failed
  /\ Len(deliveries) = 1
  /\ ~deliveries[1].result.ok
  /\ deliveries[1].result.value.message = "get_address_info"

\* the context a browser would hold had the user registered a callback
WithCallback == [ctx EXCEPT !.service_discovered_callback = Some("f")]
\* a browser callback step that delivered nothing did to the context and to
\* the backend's requests what the outcome o, computed with a callback
\* registered, does
DroppedAs(o, chain) ==
  /\ deliveries' = deliveries /\ ~aborted'
  /\ start_result' = start_result /\ phase' = phase
  /\ ctx' = [o.ctx EXCEPT !.service_discovered_callback = None]
  /\ requests' = requests \cup Tagged(o.issued, chain)

\* C6: with no result callback registered, every stage callback of the
\* browser and the register callback of the publisher deliver nothing, do not
\* panic and do not make start() return; the browser's callbacks issue the
\* requests and leave the context exactly as they do with a callback
\* registered (the callback field aside), the address callback consuming the
\* discovered strings; the publisher's context is unchanged.
C6_NoCallbackDropsDeliveries ==
  [][/\ (IsBrowser /\ ~HasCallback) =>
          /\ \A error \in ErrorCodes, found \in Instances \cup {NullInstance},
                status \in ErrorCodes :
               BrowseCall(error, found, status) =>
                 DroppedAs(browse_callback(WithCallback, error, found.name,
                             found.regtype, found.domain, found.interface_index,
                             status), Len(chains) + 1)
          /\ \A r \in ResolveRequests : \A error \in ErrorCodes, status \in ErrorCodes :
               ResolveCall(r, error, status) =>
                 LET reply == IF error = 0 THEN ResolveReply(r.params.name)
                                           ELSE [host_target |-> NullName, port |-> 0]
                 IN DroppedAs(resolve_callback(WithCallback, error, reply.port,
                                r.params.interface_index, reply.host_target, status),
                              r.chain)
          /\ \A r \in AddressRequests : \A error \in ErrorCodes :
               AddressCall(r, error) =>
                 /\ DroppedAs(get_address_info_callback(WithCallback, error,
                                IF error = 0 THEN AddressReply(r.params.hostname)
                                             ELSE NullAddress,
                                r.params.hostname), r.chain)
                 /\ (error = 0 /\ is_some(ctx.resolved_name)) =>
                      /\ is_none(ctx'.resolved_name)
                      /\ is_none(ctx'.resolved_kind)
                      /\ is_none(ctx'.resolved_domain)
     /\ (IsService /\ is_none(ctx.registered_callback)) =>
          \A r \in {q \in requests : q.params.op = "register"} :
          \A error \in ErrorCodes, name \in EchoNames(r.params) \cup {NullName} :
            RegisterCall(r, error, name) =>
              /\ deliveries' = deliveries /\ ~aborted'
              /\ start_result' = start_result /\ phase' = phase
              /\ ctx' = ctx /\ requests' = requests]_vars

\* with no callback registered an error report, a full chain and a chain
\* that stopped after a rejected request have been handled: nothing was
\* delivered, the completed chain's strings are consumed
C6_Witness ==
  /\ IsBrowser /\ ~HasCallback /\ phase = "started" /\ ~aborted
  /\ deliveries = <<>>
  /\ Len(chains) = 2
  /\ \E k \in 1..2 : chains[k].done > 0
  /\ \E k \in 1..2 : chains[k].failed
  /\ is_none(ctx.resolved_name)

\* C7: every delivery, Ok or Err, of the browser and of the publisher carries
\* the user data attached to the context (none if set_context was never
\* called); a callback step that delivers appends to the deliveries and
\* leaves the attached user data as it was, so all deliveries carry the same.
C7_DeliveriesCarryUserData ==
  /\ [](\A i \in 1..Len(deliveries) : deliveries[i].user = ctx.user_context)
  /\ [][deliveries' # deliveries =>
          /\ ctx'.user_context = ctx.user_context
          /\ Len(deliveries') > Len(deliveries)
          /\ SubSeq(deliveries', 1, Len(deliveries)) = deliveries
          /\ \A i \in (Len(deliveries) + 1)..Len(deliveries') :
               deliveries'[i].user = ctx.user_context]_vars

\* an Err and then an Ok were delivered with the same attached user data
C7_Witness ==
  /\ IsBrowser /\ Len(deliveries) = 2
  /\ ~deliveries[1].result.ok /\ deliveries[2].result.ok
  /\ ctx.user_context = Some("u2")
  /\ deliveries[1].user = Some("u2") /\ deliveries[2].user = Some("u2")

\* C8: the context is allocated once, at construction, and freed once, by the
\* owner's drop and by nothing else: it is allocated in every state before
\* the drop (so for every callback invocation), no callback step touches the
\* allocation, and every request handed to the backend carries the owner's
\* one context pointer.
C8_ContextOwnedByOwner ==
  /\ [](/\ box.allocs = 1
        /\ box.frees = (IF phase = "dropped" THEN 1 ELSE 0)
        /\ box.allocated <=> (phase # "dropped")
        /\ this.context = context_ptr
        /\ \A q \in requests : q.params.context = this.context)
  /\ [][(phase = "started" /\ phase' = "started") =>
          (box.allocated /\ box' = box /\ this' = this)]_vars

\* a browser handled two chains, one to completion and re-fired, one failed,
\* and was then dropped
C8_Witness ==
  /\ IsBrowser /\ phase = "dropped" /\ ~box.allocated /\ box.frees = 1
  /\ Len(chains) = 2
  /\ \E k \in 1..2 : chains[k].done > 0
  /\ \E k \in 1..2 : chains[k].failed
  /\ Cardinality(requests) >= 3

\* the invocation delivered exactly one result, an Err carrying the code c
OneErrWithCode(c) ==
  /\ OneDelivery /\ ~Delivered.result.ok /\ Delivered.result.value.code = c

\* C9: with a callback registered, a browse, resolve or register callback
\* reporting a nonzero code c delivers an Err carrying c, and so does the
\* address callback when it delivers at all (it does whenever the discovered
\* name is present); a resolve callback reporting an error issues no request.
C9_ErrCarriesReportedCode ==
  [][/\ (IsBrowser /\ HasCallback) =>
          /\ \A c \in ErrorCodes \ {0} :
               BrowseCall(c, NullInstance, 0) => OneErrWithCode(c)
          /\ \A r \in ResolveRequests : \A c \in ErrorCodes \ {0} :
               ResolveCall(r, c, 0) => (OneErrWithCode(c) /\ requests' = requests)
          /\ \A r \in AddressRequests : \A c \in ErrorCodes \ {0} :
               AddressCall(r, c) =>
                 /\ is_some(ctx.resolved_name) => OneErrWithCode(c)
                 /\ \A i \in (Len(deliveries) + 1)..Len(deliveries') :
                      /\ ~deliveries'[i].result.ok
                      /\ deliveries'[i].result.value.code = c
     /\ (IsService /\ HasRegisteredCallback) =>
          \A r \in RegisterRequests : \A c \in ErrorCodes \ {0} :
            RegisterCall(r, c, NullName) => OneErrWithCode(c)]_vars

\* a browse error and a resolve error were reported, each with its code, and
\* the backend holds no address request
C9_Witness ==
  /\ IsBrowser /\ HasCallback /\ Len(deliveries) = 2
  /\ deliveries[1].result = Err("browse_callback", 5)
  /\ deliveries[2].result = Err("resolve_callback", 5)
  /\ AddressRequests = {}

\* a service-found browse event was handled after every completion so far:
\* its strings are in the context
Refilled == slot > 0 /\ \A k \in 1..Len(chains) : chains[k].done < slot

\* C10 as stated: a further firing of the address callback of a completed
\* chain delivers nothing, whatever browse events were handled between the
\* completion and the firing (so it can pair no other instance's name with
\* its host name and address).
C10_RefireNeverDelivers ==
  [][\A r \in AddressRequests : \A error \in ErrorCodes :
       (IsBrowser /\ chains[r.chain].done > 0 /\ AddressCall(r, error))
         => deliveries' = deliveries]_vars

\* C10 (amended): a further firing of the address callback of a completed
\* chain delivers nothing and leaves the context unchanged as long as no
\* service-found browse event was handled since the last completion; once
\* one was, the firing is handled as that event's address callback: with code
\* 0 it delivers one Ok(ServiceDiscovery) with the name, kind and normalized
\* domain of the latest service-found browse event, the host name and address
\* of the re-fired request and the stored port, and consumes the strings;
\* with a nonzero code it delivers one Err with that code.
C10_RefireSilentUntilNextBrowse ==
  [][\A r \in AddressRequests : \A error \in ErrorCodes :
       (IsBrowser /\ HasCallback /\ chains[r.chain].done > 0 /\ AddressCall(r, error))
         => /\ ~aborted'
            /\ Refilled <=> is_some(ctx.resolved_name)
            /\ IF ~Refilled
                 THEN deliveries' = deliveries /\ ctx' = ctx
                 ELSE IF error = 0
                   THEN /\ OneDelivery
                        /\ Delivered.result =
                             Ok([name |-> Found(slot).name,
                                 kind |-> Found(slot).regtype,
                                 domain |-> normalize_domain(Found(slot).domain),
                                 host_name |-> r.params.hostname,
                                 address |-> get_ip(AddressReply(r.params.hostname)),
                                 port |-> ctx.resolved_port])
                        /\ is_none(ctx'.resolved_name)
                   ELSE OneErrWithCode(error) /\ ctx' = ctx]_vars

\* chain 1 completed, a browse event for another instance was handled, and
\* chain 1's address callback fired again: the second delivery names the
\* second instance with the first instance's host
C10_Witness ==
  /\ IsBrowser /\ HasCallback /\ Len(chains) = 2 /\ Len(deliveries) = 2
  /\ ~chains[2].resolved /\ chains[2].done = 0
  /\ chains[1].done = 2
  /\ deliveries[1].result = Ok(ExpectedDiscovery(1))
  /\ deliveries[2].result.ok
  /\ deliveries[2].result.value.name = Found(2).name
  /\ Found(2).name # Found(1).name
  /\ deliveries[2].result.value.host_name = ResolveReply(Found(1).name).host_target

\* the Ok deliveries made so far
OkDeliveries == {i \in 1..Len(deliveries) : deliveries[i].result.ok}
\* the latest browse event reported an instance while an earlier chain had
\* not completed, and no address callback has completed since
Overlapping ==
  /\ slot = Len(chains) /\ Refilled
  /\ \E a \in 1..(slot - 1) : Found(a) # NullInstance /\ chains[a].done = 0
\* two browse events reported different instances and nothing was delivered
\* under the first one's name: the second event came before the first chain
\* completed
TwoOverlapped ==
  /\ Len(chains) = 2 /\ Found(1) # NullInstance /\ Found(2) # NullInstance
  /\ Found(1).name # Found(2).name
  /\ \A i \in OkDeliveries : deliveries[i].result.value.name # Found(1).name

\* C11: when a browse event for instance B is handled before the address
\* callback of an earlier chain A has completed, the first address callback
\* to complete with code 0, whichever chain's it is, delivers one
\* ServiceDiscovery with B's name, kind and domain and its own host name and
\* address and consumes the strings; an address callback firing after that,
\* with no further browse event, delivers nothing; the two chains produce at
\* most one Ok delivery.
C11_OverlapDeliversLatestOnce ==
  /\ []((IsBrowser /\ TwoOverlapped) => Cardinality(OkDeliveries) <= 1)
  /\ [][\A r \in AddressRequests :
          /\ (IsBrowser /\ HasCallback /\ Overlapping /\ AddressCall(r, 0)) =>
               /\ OneDelivery
               /\ Delivered.result =
                    Ok([name |-> Found(slot).name,
                        kind |-> Found(slot).regtype,
                        domain |-> normalize_domain(Found(slot).domain),
                        host_name |-> r.params.hostname,
                        address |-> get_ip(AddressReply(r.params.hostname)),
                        port |-> ctx.resolved_port])
               /\ is_none(ctx'.resolved_name)
               /\ ~Refilled'
          /\ (IsBrowser /\ HasCallback /\ slot = Len(chains) /\ ~Refilled
                /\ chains[r.chain].done = 0 /\ AddressCall(r, 0)) =>
               (deliveries' = deliveries /\ ctx' = ctx)]_vars

\* both chains reached the address stage; chain 1's address callback
\* completed first and delivered instance 2's name with host 1; chain 2's
\* address request is still held and its callback now finds the name absent
C11_Witness ==
  /\ IsBrowser /\ HasCallback /\ phase = "started" /\ TwoOverlapped
  /\ chains[1].resolved /\ chains[2].resolved
  /\ chains[1].done = 2 /\ chains[2].done = 0
  /\ Len(deliveries) = 1 /\ deliveries[1].result.ok
  /\ deliveries[1].result.value.name = Found(2).name
  /\ deliveries[1].result.value.host_name = ResolveReply(Found(1).name).host_target
  /\ is_none(ctx.resolved_name)
  /\ \E r \in AddressRequests : r.chain = 2

\* chains in progress: a browse event reported an instance and no callback
\* of the chain has delivered a ServiceDiscovery or a failure yet
InProgress ==
  {k \in 1..Len(chains) :
     Found(k) # NullInstance /\ ~chains[k].failed /\ chains[k].done = 0}

\* C12 as stated: with a callback registered, at every callback boundary the
\* discovered name is present in the browser's context exactly when some
\* chain is in progress.
C12_NamePresentIffChainInProgress ==
  (IsBrowser /\ HasCallback) => (is_some(ctx.resolved_name) <=> InProgress # {})

\* C13 as stated: a browse callback reporting an instance with code 0 leaves
\* the context holding that instance's name, type and domain and no port of
\* a previous chain (the port is back at its initial value), whether or not
\* the resolve request it issues is accepted.
C13_BrowseResetsContext ==
  [][IsBrowser =>
       \A found \in Instances, status \in ErrorCodes :
         BrowseCall(0, found, status) =>
           /\ ctx'.resolved_name = Some(found.name)
           /\ ctx'.resolved_kind = Some(found.regtype)
           /\ ctx'.resolved_domain = Some(found.domain)
           /\ ctx'.resolved_port = BonjourBrowserContext.resolved_port]_vars

\* C14: a resolve request is handed to the backend only by a browse callback
\* with code 0 and names that event's instance, type, domain and interface;
\* an address-lookup request only by a resolve callback with code 0, for that
\* callback's host target and interface; callbacks reporting an error issue
\* nothing; and the resolve callback has stored the reported port by the time
\* the lookup is issued: the port is stored when the request exists and also
\* when the backend rejected it.
C14_StageOrdering ==
  [][IsBrowser =>
       /\ \A q \in requests' \ requests :
            \/ /\ q.params.op = "browse"
               /\ phase = "constructed" /\ phase' = "started"
            \/ /\ q.params.op = "resolve"
               /\ \E found \in Instances :
                    /\ BrowseCall(0, found, 0)
                    /\ q.chain = Len(chains) + 1
                    /\ q.params.name = found.name
                    /\ q.params.regtype = found.regtype
                    /\ q.params.domain = found.domain
                    /\ q.params.interface_index = found.interface_index
            \/ /\ q.params.op = "get_address_info"
               /\ \E r \in ResolveRequests :
                    /\ ResolveCall(r, 0, 0)
                    /\ q.chain = r.chain
                    /\ q.params.hostname = ResolveReply(r.params.name).host_target
                    /\ q.params.interface_index = r.params.interface_index
                    /\ ctx'.resolved_port = ResolveReply(r.params.name).port
       /\ \A r \in ResolveRequests : \A status \in ErrorCodes :
            ResolveCall(r, 0, status) =>
              /\ ctx'.resolved_port = ResolveReply(r.params.name).port
              /\ status # 0 => requests' = requests
       /\ \A error \in ErrorCodes \ {0} :
            /\ BrowseCall(error, NullInstance, 0) => requests' = requests
            /\ \A r \in ResolveRequests :
                 ResolveCall(r, error, 0) => requests' = requests
       /\ \A r \in AddressRequests : \A error \in ErrorCodes :
            AddressCall(r, error) => requests' = requests]_vars

\* one chain's address lookup is held by the backend with the chain's port
\* stored, and another chain's lookup was rejected with its port stored
C14_Witness ==
  /\ IsBrowser /\ phase = "started" /\ Len(chains) = 2
  /\ Found(1).name # Found(2).name
  /\ \E q \in AddressRequests :
       /\ q.chain = 1 /\ chains[1].resolved
       /\ q.params.hostname = ResolveReply(Found(1).name).host_target
       /\ q.params.interface_index = Found(1).interface_index
  /\ chains[2].resolved /\ chains[2].failed
  /\ ~\E q \in AddressRequests : q.chain = 2
  /\ ctx.resolved_port = ResolveReply(Found(2).name).port

\* the browse events so far that reported an error
BrowseErrors == {k \in 1..Len(chains) : Found(k) = NullInstance}
\* the standing browse request
BrowseRequests == {q \in requests : q.params.op = "browse"}

\* C15: a browse callback reporting a nonzero code delivers one Err with the
\* code, issues nothing and changes no field of the context, and the watch
\* goes on: the backend still holds the browse request, start() stays blocked,
\* and a browse callback reporting an instance afterwards stores its strings
\* and issues its resolve request as after no error.
C15_BrowseErrorKeepsWatch ==
  /\ []((IsBrowser /\ BrowseErrors # {} /\ phase = "started") =>
          (BrowseRequests # {} /\ start_result = None /\ ~aborted))
  /\ [][(IsBrowser /\ HasCallback) =>
          /\ \A error \in ErrorCodes \ {0} :
               BrowseCall(error, NullInstance, 0) =>
                 /\ OneErrWithCode(error)
                 /\ Delivered.result.value.message = "browse_callback"
                 /\ ctx' = ctx /\ requests' = requests
                 /\ phase' = phase /\ start_result' = start_result
          /\ BrowseErrors # {} =>
               \A found \in Instances : BrowseCall(0, found, 0) =>
                 /\ deliveries' = deliveries
                 /\ ctx'.resolved_name = Some(found.name)
                 /\ ctx'.resolved_kind = Some(found.regtype)
                 /\ ctx'.resolved_domain = Some(found.domain)
                 /\ \E q \in requests' \ requests :
                      /\ q.params.op = "resolve" /\ q.params.name = found.name
                      /\ q.chain = Len(chains) + 1]_vars

\* the watch reported an error, then an instance, whose chain was delivered
C15_Witness ==
  /\ IsBrowser /\ HasCallback /\ phase = "started"
  /\ Len(chains) = 2 /\ BrowseErrors = {1}
  /\ chains[2].done = 2
  /\ Len(deliveries) = 2
  /\ deliveries[1].result = Err("browse_callback", 5)
  /\ deliveries[2].result = Ok(ExpectedDiscovery(2))

\* what an invocation with outcome o did: it advanced the chain (handed one
\* request to the backend, delivered nothing), or it terminated it (handed
\* the user's callback one result, issued nothing)
Advanced(o) == Cardinality(o.issued) = 1 /\ deliveries' = deliveries
Terminated(o) == o.issued = {} /\ OneDelivery
ExactlyOneOf(a, b) == (a \/ b) /\ ~(a /\ b)
\* the outcomes of the stage callbacks on the current context
BrowseOutcome(error, found, status) ==
  browse_callback(ctx, error, found.name, found.regtype, found.domain,
                  found.interface_index, status)
ResolveOutcome(r, error, status) ==
  LET reply == IF error = 0 THEN ResolveReply(r.params.name)
                            ELSE [host_target |-> NullName, port |-> 0]
  IN resolve_callback(ctx, error, reply.port, r.params.interface_index,
                      reply.host_target, status)
AddressOutcome(r, error) ==
  get_address_info_callback(ctx, error,
    IF error = 0 THEN AddressReply(r.params.hostname) ELSE NullAddress,
    r.params.hostname)

\* C16 as stated: with a callback registered, every invocation of the browse,
\* resolve or address callback either issues exactly one request and delivers
\* nothing, or delivers exactly one result and issues nothing; never both,
\* never neither.
C16_AdvanceXorTerminate ==
  [][(IsBrowser /\ HasCallback) =>
       /\ \A error \in ErrorCodes, found \in Instances \cup {NullInstance},
             status \in ErrorCodes :
            BrowseCall(error, found, status) =>
              ExactlyOneOf(Advanced(BrowseOutcome(error, found, status)),
                           Terminated(BrowseOutcome(error, found, status)))
       /\ \A r \in ResolveRequests : \A error \in ErrorCodes, status \in ErrorCodes :
            ResolveCall(r, error, status) =>
              ExactlyOneOf(Advanced(ResolveOutcome(r, error, status)),
                           Terminated(ResolveOutcome(r, error, status)))
       /\ \A r \in AddressRequests : \A error \in ErrorCodes :
            AddressCall(r, error) =>
              ExactlyOneOf(Advanced(AddressOutcome(r, error)),
                           Terminated(AddressOutcome(r, error)))]_vars

\* C16 (amended): with a callback registered, every invocation of the browse
\* or resolve callback does exactly one of the two; an invocation of the
\* address callback that finds the discovered name present delivers exactly
\* one result and issues nothing; one that finds the name absent does
\* neither: it issues nothing, delivers nothing and leaves the context as is.
C16_AdvanceXorTerminateUnlessGuarded ==
  [][(IsBrowser /\ HasCallback) =>
       /\ \A error \in ErrorCodes, found \in Instances \cup {NullInstance},
             status \in ErrorCodes :
            BrowseCall(error, found, status) =>
              ExactlyOneOf(Advanced(BrowseOutcome(error, found, status)),
                           Terminated(BrowseOutcome(error, found, status)))
       /\ \A r \in ResolveRequests : \A error \in ErrorCodes, status \in ErrorCodes :
            ResolveCall(r, error, status) =>
              ExactlyOneOf(Advanced(ResolveOutcome(r, error, status)),
                           Terminated(ResolveOutcome(r, error, status)))
       /\ \A r \in AddressRequests : \A error \in ErrorCodes :
            AddressCall(r, error) =>
              IF is_some(ctx.resolved_name)
                THEN Terminated(AddressOutcome(r, error))
                ELSE /\ AddressOutcome(r, error).issued = {}
                     /\ deliveries' = deliveries /\ ctx' = ctx
                     /\ requests' = requests]_vars

\* a chain advanced twice and terminated with its delivery; its resolve and
\* address requests are still held, so the resolve callback can advance
\* again and the address callback now finds the name absent
C16_Witness ==
  /\ IsBrowser /\ HasCallback /\ phase = "started"
  /\ Len(chains) = 1 /\ chains[1].done = 1
  /\ deliveries = <<[result |-> Ok(ExpectedDiscovery(1)), user |-> ctx.user_context]>>
  /\ is_none(ctx.resolved_name)
  /\ \E r \in ResolveRequests : r.chain = 1
  /\ \E r \in AddressRequests : r.chain = 1

\* C17 as stated: whatever service-type string the caller passes, malformed
\* ones included, constructing the Browser does not abort: new returns a
\* Browser, and the caller learns of the problem from start().
C17_MalformedKindReportedByStart ==
  IsBrowser => phase \in {"constructed", "started", "dropped"}

\* C18: in every reachable state of a browser (every callback boundary) the
\* discovered name, type and domain are all present or all absent, and no
\* callback has panicked: the address callback that finds the name present
\* finds the type and the domain to move out.
C18_StringsAllOrNone ==
  IsBrowser =>
    /\ is_some(ctx.resolved_name) <=> is_some(ctx.resolved_kind)
    /\ is_some(ctx.resolved_name) <=> is_some(ctx.resolved_domain)
    /\ ~aborted

\* a chain completed (the strings were moved out), a second instance was
\* reported and its lookup is held while a re-firing of the first one's is
\* possible: all three strings are present again
C18_Witness ==
  /\ IsBrowser /\ phase = "started" /\ Len(chains) = 2
  /\ chains[1].done = 1 /\ chains[2].resolved /\ chains[2].done = 0
  /\ Cardinality(AddressRequests) = 2
  /\ ctx.resolved_name = Some(Found(2).name)
  /\ ctx.resolved_kind = Some(Found(2).regtype)
  /\ ctx.resolved_domain = Some(Found(2).domain)

\* the browse events so far that reported an instance
ServiceFound == {k \in 1..Len(chains) : Found(k) # NullInstance}

\* C19: the Ok deliveries of a browser never outnumber the service-found
\* browse events handled so far; while the discovered name is present they
\* are fewer (the strings of one event are still to be consumed).
C19_OkDeliveriesBoundedByBrowseEvents ==
  IsBrowser =>
    Cardinality(OkDeliveries) + (IF is_some(ctx.resolved_name) THEN 1 ELSE 0)
      <= Cardinality(ServiceFound)

\* two instances were reported and two ServiceDiscovery values delivered, the
\* second by a re-firing of the first chain's address callback; the second
\* chain's lookup is still held and every further firing finds the name absent
C19_Witness ==
  /\ IsBrowser /\ HasCallback /\ phase = "started"
  /\ Cardinality(ServiceFound) = 2 /\ Cardinality(OkDeliveries) = 2
  /\ chains[1].done = 2 /\ chains[2].resolved /\ chains[2].done = 0
  /\ \E r \in AddressRequests : r.chain = 2
  /\ is_none(ctx.resolved_name)

====
